---- MODULE Spec2Model ----
(***************************************************************************)
(* Model of terminal_words (src/main.rs): a command-line dictionary       *)
(* client.  Text is a sequence of one-character strings, an Option is a   *)
(* sequence of length 0 (None) or 1 (Some), a JSON object is a function   *)
(* from its keys to its values.                                           *)
(***************************************************************************)
EXTENDS Integers, Sequences, FiniteSets, TLC

VARIABLES cli, pc, stdin, pos, input, isExit, lookups, response, out,
          exitCode, readErr

vars == <<cli, pc, stdin, pos, input, isExit, lookups, response, out,
          exitCode, readErr>>

\* ---------------------------------------------------------------- bounds
MaxStdin == 3
MaxDefs == 5
MaxLimit == 4
MaxProbeLen == 5

\* ------------------------------------------------------------- constants
DefaultLimit == 3

None == <<>>
Some(v) == <<v>>

RECURSIVE Concat(_)
Concat(ss) == IF ss = <<>> THEN <<>> ELSE Head(ss) \o Concat(Tail(ss))

Min(a, b) == IF a < b THEN a ELSE b

SeqsUpTo(S, n) == UNION {[1..k -> S] : k \in 0..n}

\* ------------------------------------------------------------------ text
Whitespace == {" ", "\t", "\n", "\r"}

RECURSIVE TrimStart(_)
TrimStart(s) ==
    IF s # <<>> /\ Head(s) \in Whitespace THEN TrimStart(Tail(s)) ELSE s

RECURSIVE TrimEnd(_)
TrimEnd(s) ==
    IF s # <<>> /\ s[Len(s)] \in Whitespace
    THEN TrimEnd(SubSeq(s, 1, Len(s) - 1)) ELSE s

\* the line used as read, untrimmed
TrimNone(s) == s

\* str::trim as called on the input line
Trim(s) == TrimEnd(TrimStart(s))

\* matching that ignores case
is_exit_command_ci(w) ==
    LET lower(c) == IF c = "Q" THEN "q" ELSE c
    IN  [i \in 1..Len(w) |-> lower(w[i])]
            \in {<<"q">>, <<"q", "u", "i", "t">>, <<"e", "x", "i", "t">>}

\* matches!(input, "q" | "quit" | "exit")
is_exit_command(w) ==
    w \in {<<"q">>, <<"q", "u", "i", "t">>, <<"e", "x", "i", "t">>}

\* ------------------------------------------------------------ wire data
\* The text of the k-th definition of a meaning: k times "d".
DefText(k) == [i \in 1..k |-> "d"]

WireDefinition(k) ==
    IF k % 2 = 1
    THEN [definition |-> DefText(k), example |-> <<"e">> \o DefText(k)]
    ELSE [definition |-> DefText(k), synonyms |-> <<<<"s">>, <<"t">>>>]

\* A meaning object with t definitions, keyed as the API keys it.
WireMeaning(t) ==
    IF t % 2 = 0
    THEN [partOfSpeech |-> <<"n">>,
          definitions |-> [k \in 1..t |-> WireDefinition(k)],
          synonyms |-> <<<<"h">>, <<"y">>>>,
          antonyms |-> <<>>]
    ELSE [definitions |-> [k \in 1..t |-> WireDefinition(k)]]

Urls == <<<<"u", "1">>, <<"u", "2">>>>

\* An entry object; urlKey selects how (and whether) the source URLs are keyed.
WireEntry(word, ts, urlKey) ==
    LET base == [word |-> word,
                 phonetics |-> <<[text |-> <<"p">>], [audio |-> <<"a">>]>>,
                 meanings |-> [j \in 1..Len(ts) |-> WireMeaning(ts[j])]]
    IN  CASE urlKey = "sourceUrls" -> base @@ [sourceUrls |-> Urls]
          [] urlKey = "source_urls" -> base @@ [source_urls |-> Urls]
          [] urlKey = "empty" -> base @@ [sourceUrls |-> <<>>, phonetic |-> <<"f">>]
          [] OTHER -> base

\* What reqwest::get and the server hand back.
Http(status, isArray, entries) ==
    [transportOk |-> TRUE, status |-> status, isArray |-> isArray,
     entries |-> entries]

TransportFailure ==
    [transportOk |-> FALSE, status |-> 0, isArray |-> FALSE, entries |-> <<>>]

\* --------------------------------------------------------------- decode
\* serde's rename_all = "camelCase" on the field names of this program
CamelCase(f) ==
    CASE f = "part_of_speech" -> "partOfSpeech"
      [] f = "source_urls" -> "sourceUrls"
      [] OTHER -> f

\* The structs that carry #[serde(rename_all = "camelCase")]
RenameAllCamelCase == {"Meaning"}

\* The JSON key under which serde looks for a field of a struct
WireKey(struct, f) ==
    IF struct \in RenameAllCamelCase THEN CamelCase(f) ELSE f

\* Option<T> field: absent key decodes to None
OptField(struct, w, f) ==
    IF WireKey(struct, f) \in DOMAIN w THEN Some(w[WireKey(struct, f)]) ELSE None

\* Required field: absent key is a decode error
HasField(struct, w, f) == WireKey(struct, f) \in DOMAIN w

ReqField(struct, w, f) == w[WireKey(struct, f)]

ValidDefinition(w) == HasField("Definition", w, "definition")

DecodeDefinition(w) ==
    [definition |-> ReqField("Definition", w, "definition"),
     example |-> OptField("Definition", w, "example"),
     synonyms |-> OptField("Definition", w, "synonyms"),
     antonyms |-> OptField("Definition", w, "antonyms")]

ValidMeaning(w) ==
    /\ HasField("Meaning", w, "definitions")
    /\ \A k \in 1..Len(ReqField("Meaning", w, "definitions")) :
           ValidDefinition(ReqField("Meaning", w, "definitions")[k])

DecodeMeaning(w) ==
    [part_of_speech |-> OptField("Meaning", w, "part_of_speech"),
     definitions |->
         [k \in 1..Len(ReqField("Meaning", w, "definitions")) |->
             DecodeDefinition(ReqField("Meaning", w, "definitions")[k])],
     synonyms |-> OptField("Meaning", w, "synonyms"),
     antonyms |-> OptField("Meaning", w, "antonyms")]

ValidPhonetic(w) == TRUE

DecodePhonetic(w) ==
    [text |-> OptField("Phonetic", w, "text"),
     audio |-> OptField("Phonetic", w, "audio")]

ValidResponse(w) ==
    /\ HasField("DictionaryResponse", w, "word")
    /\ HasField("DictionaryResponse", w, "meanings")
    /\ \A j \in 1..Len(ReqField("DictionaryResponse", w, "meanings")) :
           ValidMeaning(ReqField("DictionaryResponse", w, "meanings")[j])

DecodeResponse(w) ==
    [word |-> ReqField("DictionaryResponse", w, "word"),
     phonetic |-> OptField("DictionaryResponse", w, "phonetic"),
     phonetics |->
         IF HasField("DictionaryResponse", w, "phonetics")
         THEN Some([k \in 1..Len(ReqField("DictionaryResponse", w, "phonetics")) |->
                      DecodePhonetic(ReqField("DictionaryResponse", w, "phonetics")[k])])
         ELSE None,
     meanings |->
         [j \in 1..Len(ReqField("DictionaryResponse", w, "meanings")) |->
             DecodeMeaning(ReqField("DictionaryResponse", w, "meanings")[j])],
     source_urls |-> OptField("DictionaryResponse", w, "source_urls")]

\* ------------------------------------------------------------ transport
is_success(status) == status >= 200 /\ status <= 299

Ok(defs) == [ok |-> TRUE, definitions |-> defs, err |-> <<>>]
Err(e) == [ok |-> FALSE, definitions |-> <<>>, err |-> <<e>>]

lookup_word(o) ==
    IF ~o.transportOk THEN Err("error sending request")
    ELSE IF is_success(o.status)
    THEN IF o.isArray /\ \A i \in 1..Len(o.entries) : ValidResponse(o.entries[i])
         THEN Ok([i \in 1..Len(o.entries) |-> DecodeResponse(o.entries[i])])
         ELSE Err("error decoding response body")
    ELSE Err("Word not found or API error")

\* -------------------------------------------------------------- display
Line(kind, text, n) == [kind |-> kind, text |-> text, n |-> n]

RECURSIVE Join(_)
Join(items) ==
    IF Len(items) = 0 THEN <<>>
    ELSE IF Len(items) = 1 THEN items[1]
    ELSE items[1] \o <<", ">> \o Join(Tail(items))

format_list(items) ==
    IF items # None /\ items[1] # <<>> THEN Some(Join(items[1])) ELSE None

print_non_empty_list(label, items) ==
    IF format_list(items) # None
    THEN <<Line(label, format_list(items)[1], 0)>>
    ELSE <<>>

\* the limit applied in detailed mode too
ShowCountAlwaysLimited(total_defs, options) == Min(total_defs, options.limit)

ShowCount(total_defs, options) ==
    IF options.detailed THEN total_defs ELSE Min(total_defs, options.limit)

\* Lines 126-139: one shown definition, i is the 0-based index of enumerate()
DefinitionLines(def, i, options) ==
    <<Line("Def", def.definition, i + 1)>>
    \o (IF (options.detailed \/ i = 0) /\ def.example # None
        THEN <<Line("Example", def.example[1], 0)>> ELSE <<>>)
    \o (IF options.detailed
        THEN print_non_empty_list("DefSynonyms", def.synonyms)
             \o print_non_empty_list("DefAntonyms", def.antonyms)
        ELSE <<>>)

MeaningLines(meaning, options) ==
    LET pos_ == IF meaning.part_of_speech # None
                THEN meaning.part_of_speech[1] ELSE <<"unknown">>
        total_defs == Len(meaning.definitions)
        show_count == ShowCount(total_defs, options)
    IN  <<Line("PartOfSpeech", pos_, 0)>>
        \o Concat([k \in 1..show_count |->
                      DefinitionLines(meaning.definitions[k], k - 1, options)])
        \o (IF ~options.detailed /\ total_defs > show_count
            THEN <<Line("More", <<>>, total_defs - show_count)>> ELSE <<>>)
        \o (IF options.detailed
            THEN print_non_empty_list("Synonyms", meaning.synonyms)
                 \o print_non_empty_list("Antonyms", meaning.antonyms)
            ELSE <<>>)
        \o <<Line("Blank", <<>>, 0)>>

PronunciationLines(phonetics) ==
    LET ps == IF phonetics = None THEN <<>> ELSE phonetics[1]
    IN  Concat([k \in 1..Len(ps) |->
                   IF ps[k].text # None
                   THEN <<Line("Pronunciation", ps[k].text[1], 0)>> ELSE <<>>])

SourceLines(resp, options) ==
    IF options.detailed /\ resp.source_urls # None /\ resp.source_urls[1] # <<>>
    THEN <<Line("Source", resp.source_urls[1][1], 0)>>
    ELSE <<>>

display_word_info(resp, options) ==
    <<Line("Word", resp.word, 0)>>
    \o (IF resp.phonetic # None
        THEN <<Line("Phonetic", resp.phonetic[1], 0)>> ELSE <<>>)
    \o PronunciationLines(resp.phonetics)
    \o <<Line("Blank", <<>>, 0)>>
    \o Concat([j \in 1..Len(resp.meanings) |->
                  MeaningLines(resp.meanings[j], options)])
    \o SourceLines(resp, options)

\* What lookup_and_display prints for a word, given the lookup's result
lookup_and_display(word, result, options) ==
    <<Line("LookingUp", word, 0)>>
    \o (IF result.ok
        THEN Concat([i \in 1..Len(result.definitions) |->
                        display_word_info(result.definitions[i], options)])
        ELSE <<Line("Error", result.err, 0)>>)

DisplayOptions(c) == [detailed |-> c.detail, limit |-> c.limit]

\* ---------------------------------------------------------------- inputs
Cat == <<"c", "a", "t">>
Hello == <<"h", "e", "l", "l", "o">>

\* Raw lines as read_line returns them (terminator included); the last one
\* is an unterminated final line.
StdinLines ==
    { <<"\n">>,
      <<" ", "\t", "\n">>,
      <<"q", "\n">>,
      <<"q", "u", "i", "t", "\n">>,
      <<" ", "e", "x", "i", "t", " ", "\r", "\n">>,
      <<"Q", "u", "i", "t", "\n">>,
      Hello \o <<"\n">>,
      <<"h", "i">> }

Terminated(line) == line # <<>> /\ line[Len(line)] = "\n"

\* Standard input: only its final line may lack the terminator.
Stdins ==
    { s \in SeqsUpTo(StdinLines, MaxStdin) :
          \A i \in 1..Len(s) : i < Len(s) => Terminated(s[i]) }

MalformedEntry == [meanings |-> <<>>]

\* What the network may answer to a request for word
Outcomes(word) ==
    { TransportFailure,
      Http(404, FALSE, <<>>),
      Http(200, FALSE, <<>>),
      Http(200, TRUE, <<MalformedEntry>>),
      Http(200, TRUE, <<WireEntry(word, <<4, 1>>, "sourceUrls")>>) }

MeaningSizes == SeqsUpTo(0..MaxDefs, 2) \ {<<>>}

RenderOutcomes(word) ==
    { Http(200, TRUE, <<WireEntry(word, ts, uk)>>) :
          ts \in MeaningSizes,
          uk \in {"sourceUrls", "source_urls", "empty", "none"} }

ProbeChars == {"q", "u", "i", "t", "e", "x", "Q", " "}

\* --------------------------------------------------------------- actions
Banner ==
    <<Line("Banner", <<>>, 0), Line("Help", <<>>, 0), Line("Blank", <<>>, 0)>>

Prompt == Line("Prompt", <<>>, 0)
Goodbye == Line("Goodbye", <<>>, 0)

\* main falls off its if/else and returns Ok(())
MainReturns ==
    /\ pc' = "exit"
    /\ exitCode' = Some(0)

\* main, line 231-233, and run_interactive_mode up to the loop
RunInteractive ==
    /\ pc = "main"
    /\ cli.interactive
    /\ out' = out \o Banner
    /\ pc' = "prompt"
    /\ UNCHANGED <<cli, stdin, pos, input, isExit, lookups, response,
                   exitCode, readErr>>

\* the positional word tested before the interactive flag
SingleShotWordFirst(o) ==
    /\ pc = "main"
    /\ cli.word # None
    /\ response' = Some(o)
    /\ lookups' = Append(lookups, [word |-> cli.word[1], ok |-> lookup_word(o).ok])
    /\ out' = out \o lookup_and_display(cli.word[1], lookup_word(o),
                                        DisplayOptions(cli))
    /\ MainReturns
    /\ UNCHANGED <<cli, stdin, pos, input, isExit, readErr>>

\* main, line 234-236: one lookup of the positional word, answered by o
SingleShotWith(o) ==
    /\ pc = "main"
    /\ ~cli.interactive
    /\ cli.word # None
    /\ response' = Some(o)
    /\ lookups' = Append(lookups, [word |-> cli.word[1], ok |-> lookup_word(o).ok])
    /\ out' = out \o lookup_and_display(cli.word[1], lookup_word(o),
                                        DisplayOptions(cli))
    /\ MainReturns
    /\ UNCHANGED <<cli, stdin, pos, input, isExit, readErr>>

SingleShot ==
    /\ cli.word # None
    /\ \E o \in Outcomes(cli.word[1]) : SingleShotWith(o)

\* the usage error falling through to main's Ok(())
UsageReturnsOk ==
    /\ pc = "main"
    /\ ~cli.interactive
    /\ cli.word = None
    /\ out' = out \o <<Line("UsageError", <<>>, 0), Line("Usage", <<>>, 0)>>
    /\ MainReturns
    /\ UNCHANGED <<cli, stdin, pos, input, isExit, lookups, response, readErr>>

\* main, line 237-241
Usage ==
    /\ pc = "main"
    /\ ~cli.interactive
    /\ cli.word = None
    /\ out' = out \o <<Line("UsageError", <<>>, 0), Line("Usage", <<>>, 0)>>
    /\ pc' = "exit"
    /\ exitCode' = Some(1)
    /\ UNCHANGED <<cli, stdin, pos, input, isExit, lookups, response, readErr>>

\* read_line returns Ok(0)
ReadEof ==
    /\ pc = "prompt"
    /\ pos = Len(stdin)
    /\ input' = <<>>
    /\ out' = out \o <<Prompt, Line("Blank", <<>>, 0), Goodbye>>
    /\ MainReturns
    /\ UNCHANGED <<cli, stdin, pos, isExit, lookups, response, readErr>>

\* read_line returns Ok(n), n > 0, and the trimmed line is empty
ReadEmpty ==
    /\ pc = "prompt"
    /\ pos < Len(stdin)
    /\ input' = stdin[pos + 1]
    /\ pos' = pos + 1
    /\ Trim(stdin[pos + 1]) = <<>>
    /\ out' = Append(out, Prompt)
    /\ UNCHANGED <<cli, pc, stdin, isExit, lookups, response, exitCode, readErr>>

\* the exit command answered with the farewell but without the break
ReadExitNoBreak ==
    /\ pc = "prompt"
    /\ pos < Len(stdin)
    /\ input' = stdin[pos + 1]
    /\ pos' = pos + 1
    /\ Trim(stdin[pos + 1]) # <<>>
    /\ is_exit_command(Trim(stdin[pos + 1]))
    /\ isExit' = Some(TRUE)
    /\ out' = out \o <<Prompt, Goodbye>>
    /\ UNCHANGED <<cli, pc, exitCode, stdin, lookups, response, readErr>>

\* ... the trimmed line is an exit command
ReadExit ==
    /\ pc = "prompt"
    /\ pos < Len(stdin)
    /\ input' = stdin[pos + 1]
    /\ pos' = pos + 1
    /\ Trim(stdin[pos + 1]) # <<>>
    /\ is_exit_command(Trim(stdin[pos + 1]))
    /\ isExit' = Some(TRUE)
    /\ out' = out \o <<Prompt, Goodbye>>
    /\ MainReturns
    /\ UNCHANGED <<cli, stdin, lookups, response, readErr>>

\* a failed lookup leaving the loop
ReadWordFailureBreaks(o) ==
    /\ pc = "prompt"
    /\ pos < Len(stdin)
    /\ input' = stdin[pos + 1]
    /\ pos' = pos + 1
    /\ Trim(stdin[pos + 1]) # <<>>
    /\ ~is_exit_command(Trim(stdin[pos + 1]))
    /\ isExit' = Some(FALSE)
    /\ response' = Some(o)
    /\ lookups' = Append(lookups, [word |-> Trim(stdin[pos + 1]),
                                   ok |-> lookup_word(o).ok])
    /\ out' = out \o <<Prompt>>
                  \o lookup_and_display(Trim(stdin[pos + 1]), lookup_word(o),
                                        DisplayOptions(cli))
    /\ IF lookup_word(o).ok
       THEN UNCHANGED <<pc, exitCode>>
       ELSE MainReturns
    /\ UNCHANGED <<cli, stdin, readErr>>

\* ... the trimmed line is a word, and the network answers o
ReadWordWith(o) ==
    /\ pc = "prompt"
    /\ pos < Len(stdin)
    /\ input' = stdin[pos + 1]
    /\ pos' = pos + 1
    /\ Trim(stdin[pos + 1]) # <<>>
    /\ ~is_exit_command(Trim(stdin[pos + 1]))
    /\ isExit' = Some(FALSE)
    /\ response' = Some(o)
    /\ lookups' = Append(lookups, [word |-> Trim(stdin[pos + 1]),
                                   ok |-> lookup_word(o).ok])
    /\ out' = out \o <<Prompt>>
                  \o lookup_and_display(Trim(stdin[pos + 1]), lookup_word(o),
                                        DisplayOptions(cli))
    /\ UNCHANGED <<cli, pc, stdin, exitCode, readErr>>

ReadWord ==
    /\ pos < Len(stdin)
    /\ \E o \in Outcomes(Trim(stdin[pos + 1])) : ReadWordWith(o)

\* read_line returns Err(e)
ReadError ==
    /\ pc = "prompt"
    /\ readErr' = TRUE
    /\ input' = <<>>
    /\ out' = out \o <<Prompt, Line("ErrorReadingInput", <<>>, 0)>>
    /\ MainReturns
    /\ UNCHANGED <<cli, stdin, pos, isExit, lookups, response>>

\* ------------------------------------------------------------ the program
Init ==
    /\ cli \in [word : {None, Some(Cat)}, detail : BOOLEAN,
                interactive : BOOLEAN, limit : {DefaultLimit}]
    /\ stdin \in IF cli.interactive THEN Stdins ELSE {<<>>}
    /\ pc = "main"
    /\ pos = 0
    /\ input = <<>>
    /\ isExit = None
    /\ lookups = <<>>
    /\ response = None
    /\ out = <<>>
    /\ exitCode = None
    /\ readErr = FALSE

Next ==
    \/ RunInteractive
    \/ SingleShot
    \/ Usage
    \/ ReadEof
    \/ ReadEmpty
    \/ ReadExit
    \/ ReadWord
    \/ ReadError

Spec == Init /\ [][Next]_vars

\* ------------------------------- rendering over a wide range of responses
InitRender ==
    /\ cli \in [word : {Some(Cat)}, detail : BOOLEAN,
                interactive : {FALSE}, limit : 1..MaxLimit]
    /\ stdin = <<>>
    /\ pc = "main"
    /\ pos = 0
    /\ input = <<>>
    /\ isExit = None
    /\ lookups = <<>>
    /\ response = None
    /\ out = <<>>
    /\ exitCode = None
    /\ readErr = FALSE

LookupRendered == \E o \in RenderOutcomes(cli.word[1]) : SingleShotWith(o)

NextRender == LookupRendered

SpecRender == InitRender /\ [][NextRender]_vars

\* ------------------------------------- is_exit_command over many strings
InitExit ==
    /\ input \in SeqsUpTo(ProbeChars, MaxProbeLen)
    /\ isExit = None
    /\ pc = "probe"
    /\ cli = [word |-> None, detail |-> FALSE, interactive |-> FALSE,
              limit |-> DefaultLimit]
    /\ stdin = <<>>
    /\ pos = 0
    /\ lookups = <<>>
    /\ response = None
    /\ out = <<>>
    /\ exitCode = None
    /\ readErr = FALSE

\* the unit tests' direct call is_exit_command(input)
CallIsExitCommand ==
    /\ pc = "probe"
    /\ isExit' = Some(is_exit_command(input))
    /\ pc' = "probed"
    /\ UNCHANGED <<cli, stdin, pos, input, lookups, response, out, exitCode,
                   readErr>>

NextExit == CallIsExitCommand

SpecExit == InitExit /\ [][NextExit]_vars

\* ================================================================ claims
ExitTokens == {<<"q">>, <<"q", "u", "i", "t">>, <<"e", "x", "i", "t">>}

AllWhitespace(line) == \A i \in 1..Len(line) : line[i] \in {" ", "\t", "\n", "\r"}

Count(o, kind) == Cardinality({i \in 1..Len(o) : o[i].kind = kind})

OfKind(o, kind) == SelectSeq(o, LAMBDA l : l.kind = kind)

LastLookupFailed == lookups # <<>> /\ ~lookups[Len(lookups)].ok

\* C1: in single-shot mode a failed lookup prints one error line, renders
\* nothing, and the program terminates with a non-zero exit status.
C1_SingleShotFailureIsFatal ==
    (pc = "exit" /\ ~cli.interactive /\ cli.word # None /\ LastLookupFailed)
        => /\ Count(out, "Error") = 1
           /\ Count(out, "Word") = 0
           /\ exitCode # None
           /\ exitCode # Some(0)

\* C2: in interactive mode a failed lookup prints one error line and returns
\* to the prompt; the loop is left only on an exit token, end of input or an
\* input-read error.
C2_FailedLookupKeepsLoop ==
    [][ /\ (pc = "prompt" /\ Len(lookups') = Len(lookups) + 1
                /\ ~lookups'[Len(lookups')].ok)
            => /\ pc' = "prompt"
               /\ exitCode' = None
               /\ pos' = pos + 1
               /\ Count(out', "Error") = Count(out, "Error") + 1
               /\ Count(out', "Goodbye") = Count(out, "Goodbye")
        /\ (pc = "prompt" /\ pc' # "prompt")
            => \/ readErr'
               \/ pos = Len(stdin)
               \/ Trim(stdin[pos + 1]) \in ExitTokens ]_vars

\* C2 witness: a second lookup was performed after a failed first one
C2_Witness ==
    /\ pc = "prompt"
    /\ Len(lookups) >= 2
    /\ ~lookups[1].ok

\* The lookups an input prescribes: the trimmed, non-empty lines before the
\* first exit-token line.
FirstExit(s) ==
    IF \E i \in 1..Len(s) : Trim(s[i]) \in ExitTokens
    THEN CHOOSE i \in 1..Len(s) :
             /\ Trim(s[i]) \in ExitTokens
             /\ \A k \in 1..(i - 1) : Trim(s[k]) \notin ExitTokens
    ELSE Len(s) + 1

ExpectedLookups(s) ==
    SelectSeq([i \in 1..(FirstExit(s) - 1) |-> Trim(s[i])],
              LAMBDA w : w # <<>>)

\* C3: without a read error, an interactive session looks up exactly the
\* trimmed non-empty non-exit lines that precede the first exit token (or end
\* of input), in order, then says farewell and exits with status 0.
C3_LookupsAreLinesBeforeExit ==
    (pc = "exit" /\ cli.interactive /\ ~readErr)
        => /\ [i \in 1..Len(lookups) |-> lookups[i].word] = ExpectedLookups(stdin)
           /\ pos = Min(FirstExit(stdin), Len(stdin))
           /\ out[Len(out)] = Goodbye
           /\ Count(out, "Goodbye") = 1
           /\ exitCode = Some(0)
           /\ (stdin = <<Hello \o <<"\n">>, <<"q", "u", "i", "t", "\n">>>>
                  => [i \in 1..Len(lookups) |-> lookups[i].word] = <<Hello>>)

\* C3 witness: "hello", "quit", "hello" ended after one lookup
C3_Witness ==
    /\ pc = "exit"
    /\ cli.interactive
    /\ ~readErr
    /\ stdin = <<Hello \o <<"\n">>, <<"q", "u", "i", "t", "\n">>, Hello \o <<"\n">>>>
    /\ Len(lookups) = 1
    /\ lookups[1].word = Hello

\* C4: reading an empty or whitespace-only line issues no request, prints no
\* farewell and leaves the loop at its prompt.
C4_BlankLineIgnored ==
    [][ (pc = "prompt" /\ pos < Len(stdin) /\ AllWhitespace(stdin[pos + 1])
             /\ ~readErr')
            => /\ pc' = "prompt"
               /\ exitCode' = None
               /\ pos' = pos + 1
               /\ lookups' = lookups
               /\ response' = response
               /\ out' = Append(out, Prompt) ]_vars

\* C4 witness: a whitespace-only line has just been read
C4_Witness ==
    /\ pc = "prompt"
    /\ pos >= 1
    /\ input = stdin[pos]
    /\ input = <<" ", "\t", "\n">>
    /\ lookups = <<>>

\* C5: is_exit_command holds of "q", "quit" and "exit" and of nothing else:
\* not of "Quit", "quit ", "Q" or the empty string.
C5_ExitMatchingExact ==
    pc = "probed"
        => /\ isExit = Some(input \in ExitTokens)
           /\ (input \in {<<"Q", "u", "i", "t">>, <<"q", "u", "i", "t", " ">>,
                          <<"Q">>, <<>>} => isExit = Some(FALSE))

\* C5 witness: "quit " was tested and did not match
C5_Witness ==
    /\ pc = "probed"
    /\ input = <<"q", "u", "i", "t", " ">>
    /\ isExit = Some(FALSE)

\* C6: a line-read failure ends the loop with an error message and no
\* farewell, and the program exits with status 1.
C6_ReadErrorExitsOne ==
    (pc = "exit" /\ readErr)
        => /\ out[Len(out)].kind = "ErrorReadingInput"
           /\ Count(out, "Goodbye") = 0
           /\ exitCode = Some(1)

\* C7: with neither a word nor the interactive flag the program prints a
\* usage error, exits non-zero, and makes no network request.
C7_UsageErrorNoRequest ==
    (~cli.interactive /\ cli.word = None)
        => /\ lookups = <<>>
           /\ response = None
           /\ pc = "exit"
                => /\ Count(out, "UsageError") = 1
                   /\ exitCode # None
                   /\ exitCode # Some(0)

\* C7 witness: the usage path has terminated
C7_Witness ==
    /\ pc = "exit"
    /\ ~cli.interactive
    /\ cli.word = None
    /\ Count(out, "UsageError") = 1

\* The printed lines of the j-th meaning: from its part-of-speech line up to
\* the blank line that closes it.
NthIndex(o, kind, j) ==
    CHOOSE i \in 1..Len(o) :
        /\ o[i].kind = kind
        /\ Cardinality({k \in 1..(i - 1) : o[k].kind = kind}) = j - 1

Section(o, j) ==
    LET start == NthIndex(o, "PartOfSpeech", j)
        end == CHOOSE e \in (start + 1)..Len(o) :
                   /\ o[e].kind = "Blank"
                   /\ \A k \in (start + 1)..(e - 1) : o[k].kind # "Blank"
    IN  SubSeq(o, start + 1, end - 1)

\* The meanings of the entry the server sent, as sent
SentMeanings == response[1].entries[1].meanings

\* C8: per meaning with T definitions and limit L >= 1, non-detailed output
\* has the first min(T, L) definitions numbered 1..min(T, L) and a hint iff
\* T > L, reporting T - min(T, L); detailed output has all T and no hint.
C8_DefinitionsShownAndHint ==
    (pc = "exit" /\ lookups # <<>> /\ lookups[1].ok)
        => /\ Count(out, "PartOfSpeech") = Len(SentMeanings)
           /\ \A j \in 1..Len(SentMeanings) :
                 LET T == Len(SentMeanings[j].definitions)
                     shown == IF cli.detail THEN T
                              ELSE IF T < cli.limit THEN T ELSE cli.limit
                     defs == OfKind(Section(out, j), "Def")
                     hints == OfKind(Section(out, j), "More")
                 IN  /\ Len(defs) = shown
                     /\ \A k \in 1..shown :
                            /\ defs[k].n = k
                            /\ defs[k].text = SentMeanings[j].definitions[k].definition
                     /\ hints = IF ~cli.detail /\ T > cli.limit
                                THEN <<Line("More", <<>>, T - shown)>>
                                ELSE <<>>

\* C8 witness: 5 definitions under limit 3 gave 3 definitions and "+2 more"
C8_Witness ==
    /\ pc = "exit"
    /\ ~cli.detail
    /\ cli.limit = 3
    /\ lookups # <<>> /\ lookups[1].ok
    /\ Len(SentMeanings) = 1
    /\ Len(SentMeanings[1].definitions) = 5
    /\ OfKind(Section(out, 1), "More") = <<Line("More", <<>>, 2)>>
    /\ Len(OfKind(Section(out, 1), "Def")) = 3

\* C9: an entry sent with a non-empty sourceUrls list is rendered with
\* exactly one source line, its first URL, in detailed mode, and with none
\* otherwise.
C9_SourceUrlShown ==
    (pc = "exit" /\ lookups # <<>> /\ lookups[1].ok
         /\ "sourceUrls" \in DOMAIN response[1].entries[1]
         /\ response[1].entries[1]["sourceUrls"] # <<>>)
        => OfKind(out, "Source") =
               IF cli.detail
               THEN <<Line("Source", response[1].entries[1]["sourceUrls"][1], 0)>>
               ELSE <<>>

\* C10: the interactive flag wins over a positional word, which is then
\* never looked up; only without the flag is the positional word looked up
\* or the usage error given; exactly one of the three runs.
C10_InteractiveFlagPrecedence ==
    /\ cli.interactive
          => /\ pc # "main" => (Len(out) >= 3 /\ SubSeq(out, 1, 3) = Banner)
             /\ Count(out, "UsageError") = 0
             /\ \A i \in 1..Len(lookups) :
                    /\ cli.word # Some(lookups[i].word)
                    /\ \E k \in 1..pos : lookups[i].word = Trim(stdin[k])
    /\ ~cli.interactive
          => /\ Count(out, "Banner") = 0
             /\ Count(out, "Prompt") = 0
             /\ pos = 0
             /\ lookups # <<>> => (Len(lookups) = 1 /\ cli.word = Some(lookups[1].word))
    /\ pc = "exit"
          => Cardinality({m \in {"Banner", "UsageError"} : Count(out, m) > 0})
               + (IF out[1].kind = "LookingUp" THEN 1 ELSE 0) = 1

\* C10 witness: flag and word both given, the session looked a line up and ended
C10_Witness ==
    /\ pc = "exit"
    /\ cli.interactive
    /\ cli.word = Some(Cat)
    /\ lookups # <<>>

====
